---- MODULE Spec2Model ----
(***************************************************************************)
(* Model of src/Underwater_Image_Processing_and_Object_Detection.py:       *)
(*   - ObjectDetector._postprocess (decode loop, sort, deny, allow,        *)
(*     truncate),                                                          *)
(*   - whitepatch_balancing (white-patch colour balancing),                *)
(*   - visualize / objectDetector / whitepatch_balancing as operations on  *)
(*     image buffers and on the file ./tmp/image.png.                      *)
(*                                                                         *)
(* Number conventions.  Scores and the score threshold are floats in       *)
(* [0,1]; the model keeps them in tenths (9 stands for 0.9).  A normalised *)
(* box component is kept in tenths as well (2 stands for 0.2), so the      *)
(* product y_min * image_height is the exact fraction (y * height) / 10.   *)
(* Floating-point rounding of these products is not modelled.              *)
(***************************************************************************)
EXTENDS Integers, Sequences, FiniteSets, TLC

VARIABLES
    \* ---- ObjectDetector._postprocess ----
    options,        \* self._options (ObjectDetectorOptions)
    boxes,          \* output tensor 'location', one [yMin,xMin,yMax,xMax] per slot
    classes,        \* output tensor 'category'
    scores,         \* output tensor 'score'
    count,          \* output tensor 'number of detections'
    image_width,
    image_height,
    results,        \* the local list built by the decode loop
    detections,     \* the list _postprocess returns
    pc,             \* "ready" before the call, "done" after it
    \* ---- whitepatch_balancing ----
    image,          \* the image passed in, image[<<row, column>>][channel]
    from_row,
    from_column,
    row_width,
    column_width,
    patch_max,      \* image_patch.max(axis=(0, 1)), one value per channel
    image_max,      \* the float array image_max (divided and clipped)
    white_balanc_image, \* the 8-bit balanced image
    wb_pc,          \* "ready", "done", or "error" (an exception was raised)
    \* ---- image buffers and files ----
    heap,           \* buffer id -> the image held by that buffer
    tmp_image_png,  \* the file ./tmp/image.png
    call,           \* the last call: its argument, what it returned, and
                    \* the buffers and the file as they were before it
    \* ---- ObjectDetector.__init__ ----
    ctor_options,   \* the options argument (enable_edgetpu)
    platform_system,\* platform.system()
    process_units,  \* process_units of the input tensor's metadata
    output_details, \* raw 'index' of each of interpreter.get_output_details()
    detector,       \* the fields __init__ has set on self
    ctor_pc,        \* "ready", "constructed", or the exception raised
    \* ---- the script of the page (one run per interaction) ----
    uploaded_file,  \* the photograph uploaded, "" when there is none
    canvas_objects, \* canvas.json_data['objects']: the rectangles drawn
    ui,             \* the script's image variables, by name
    log,            \* the image operations of this run, in the order made
    flow_pc         \* the place of the run in the script

detectVars == <<options, boxes, classes, scores, count, image_width,
                image_height, results, detections, pc>>

balanceVars == <<image, from_row, from_column, row_width, column_width,
                 patch_max, image_max, white_balanc_image, wb_pc>>

transformVars == <<heap, tmp_image_png, call>>

ctorVars == <<ctor_options, platform_system, process_units, output_details,
              detector, ctor_pc>>

flowVars == <<uploaded_file, canvas_objects, ui, log, flow_pc>>

vars == <<detectVars, balanceVars, transformVars, ctorVars, flowVars>>

----------------------------------------------------------------------------
(* Bounds of the model. *)

\* Length of the model's output tensors (slots 0 .. MaxDetections-1).
MaxDetections == 3

\* max_results ranges over -1 .. MaxResultsBound.
MaxResultsBound == 2

\* Rows and columns of the images given to whitepatch_balancing.
ImgHeight == 1
ImgWidth == 2

\* Number of image buffers that can be allocated.
MaxBuffers == 4

\* Number of annotations a buffer can carry.
MaxAnnotations == 1

\* Largest number of output tensors a model exposes.
MaxOutputs == 5

----------------------------------------------------------------------------
(* Values the inputs are drawn from. *)

\* self._label_list, index = class index.
label_list == <<"fish", "shark", "starfish">>

\* Scores in tenths.
ScoreValues == {4, 5, 9}

\* Score thresholds in tenths: the default 0.0 and the UI's default 0.5.
Thresholds == {0, 5}

\* Normalised boxes [yMin, xMin, yMax, xMax] in tenths.
BoxValues == {<<1, 2, 5, 6>>, <<3, 0, 10, 7>>}

\* Image sizes [height, width].
ImageSizes == {<<100, 200>>, <<25, 33>>}

\* An optional list of labels: None, or a list (used only through "in").
None == [configured |-> FALSE, labels |-> {}]
Some(labels) == [configured |-> TRUE, labels |-> labels]

DenyLists == {None, Some({"fish"})}
AllowLists == {None, Some({"fish", "shark"}), Some({"shark"})}

----------------------------------------------------------------------------
(* ObjectDetector._postprocess *)

\* int(x) of the exact fraction num / den: truncation toward zero.
IntOfFraction(num, den) ==
    IF num >= 0 THEN num \div den ELSE -((-num) \div den)

\* Rect(top=int(y_min * image_height), left=int(x_min * image_width), ...)
BoundingBoxSwapped(box, width, height) ==
    [top    |-> IntOfFraction(box[1] * width, 10),
     left   |-> IntOfFraction(box[2] * height, 10),
     bottom |-> IntOfFraction(box[3] * width, 10),
     right  |-> IntOfFraction(box[4] * height, 10)]

BoundingBox(box, width, height) ==
    [top    |-> IntOfFraction(box[1] * height, 10),
     left   |-> IntOfFraction(box[2] * width, 10),
     bottom |-> IntOfFraction(box[3] * height, 10),
     right  |-> IntOfFraction(box[4] * width, 10)]

\* Category(score=scores[i], label=self._label_list[class_id], index=class_id)
Category(score, class_id) ==
    [score |-> score, label |-> label_list[class_id + 1], index |-> class_id]

\* Detection(bounding_box=bounding_box, categories=[category])
Detection(box, class_id, score, width, height) ==
    [bounding_box |-> BoundingBox(box, width, height),
     categories   |-> <<Category(score, class_id)>>]

\* if scores[i] >= self._options.score_threshold
PassesThresholdStrict(score, threshold) == score > threshold

PassesThreshold(score, threshold) == score >= threshold

\* for i in range(count): ... results.append(result)     (i is 0-based)
RECURSIVE DecodeFrom(_, _, _, _, _, _, _, _)
DecodeFrom(i, bxs, cls, scs, cnt, width, height, threshold) ==
    IF i >= cnt THEN <<>>
    ELSE (IF PassesThreshold(scs[i + 1], threshold)
          THEN <<Detection(bxs[i + 1], cls[i + 1], scs[i + 1], width, height)>>
          ELSE <<>>)
         \o DecodeFrom(i + 1, bxs, cls, scs, cnt, width, height, threshold)

Score(d) == d.categories[1].score
Label(d) == d.categories[1].label

\* Number of leading elements of s whose score is at most x.
LeadingAtMost(s, x) ==
    CHOOSE k \in 0..Len(s) :
        /\ \A j \in 1..k : Score(s[j]) <= x
        /\ k = Len(s) \/ ~(Score(s[k + 1]) <= x)

\* Number of leading elements of s whose score is at least x: where a stable
\* descending sort places a new element of score x.
LeadingAtLeast(s, x) ==
    CHOOSE k \in 0..Len(s) :
        /\ \A j \in 1..k : Score(s[j]) >= x
        /\ k = Len(s) \/ ~(Score(s[k + 1]) >= x)

InsertAt(s, k, d) == SubSeq(s, 1, k) \o <<d>> \o SubSeq(s, k + 1, Len(s))

\* sorted(results, key=score) without reverse=True: ascending, stable.
RECURSIVE sorted_results_ascending(_)
sorted_results_ascending(rs) ==
    IF rs = <<>> THEN <<>>
    ELSE LET front == sorted_results_ascending(SubSeq(rs, 1, Len(rs) - 1))
             d     == rs[Len(rs)]
         IN  InsertAt(front,
                      LeadingAtMost(front, Score(d)), d)

\* sorted(results, key=lambda detection: detection.categories[0].score,
\*        reverse=True): descending by score; Python's sort is stable and
\* reverse=True keeps the original order of elements with equal keys.
RECURSIVE sorted_results(_)
sorted_results(rs) ==
    IF rs = <<>> THEN <<>>
    ELSE LET front == sorted_results(SubSeq(rs, 1, Len(rs) - 1))
             d     == rs[Len(rs)]
         IN  InsertAt(front,
                      LeadingAtLeast(front, Score(d)), d)

\* filter(lambda detection: ... label not in label_deny_list, ...)
deny_filtered(opts, rs) ==
    IF opts.label_deny_list.configured
    THEN SelectSeq(rs, LAMBDA d : Label(d) \notin opts.label_deny_list.labels)
    ELSE rs

\* The allow stage written as "elif": skipped when a deny list is configured.
allow_filtered_elif(opts, rs) ==
    IF opts.label_allow_list.configured /\ ~opts.label_deny_list.configured
    THEN SelectSeq(rs, LAMBDA d : Label(d) \in opts.label_allow_list.labels)
    ELSE rs

\* filter(lambda detection: ... label in label_allow_list, ...)
allow_filtered(opts, rs) ==
    IF opts.label_allow_list.configured
    THEN SelectSeq(rs, LAMBDA d : Label(d) \in opts.label_allow_list.labels)
    ELSE rs

Min(a, b) == IF a <= b THEN a ELSE b

\* The truncation guarded by ">= 0" instead of "> 0".
truncated_from_zero(opts, rs) ==
    IF opts.max_results >= 0
    THEN SubSeq(rs, 1, Min(Len(rs), opts.max_results))
    ELSE rs

\* if max_results > 0: filtered_results[:min(len(filtered_results), max_results)]
truncated(opts, rs) ==
    IF opts.max_results > 0
    THEN SubSeq(rs, 1, Min(Len(rs), opts.max_results))
    ELSE rs

\* The stages with the truncation applied right after the sort.
filtered_results_truncate_first(opts, rs) ==
    allow_filtered(opts, deny_filtered(opts, truncated(opts, sorted_results(rs))))

\* sort, then deny, then allow, then truncate.
filtered_results(opts, rs) ==
    truncated(opts, allow_filtered(opts, deny_filtered(opts, sorted_results(rs))))

\* One call of ObjectDetector._postprocess.
Postprocess ==
    /\ pc = "ready"
    /\ results' = DecodeFrom(0, boxes, classes, scores, count, image_width,
                             image_height, options.score_threshold)
    /\ detections' = filtered_results(options, results')
    /\ pc' = "done"
    /\ UNCHANGED <<options, boxes, classes, scores, count, image_width,
                   image_height>>
    /\ UNCHANGED <<balanceVars, transformVars, ctorVars, flowVars>>

Tensor(values) == [1..MaxDetections -> values]

\* An image buffer: a PIL image or a numpy array, its size <<width, height>>,
\* where its pixels come from, and what has been drawn on it.  The first
\* buffer id is 1; a buffer that is not allocated is Free.
BufferIds == 1..MaxBuffers
Free == [kind |-> "free", size |-> <<0, 0>>, pixels |-> <<>>, drawn |-> <<>>]
NoFile == [exists |-> FALSE, size |-> <<0, 0>>, pixels |-> <<>>]
NoCall == [op |-> "none", raised |-> FALSE, arg |-> 0, ret |-> <<>>,
           drawn |-> <<>>, heap_before |-> <<>>, file_before |-> NoFile]

\* An image variable of the script that is not set.
NoImage == [kind |-> "free", size |-> <<0, 0>>, pixels |-> <<>>, drawn |-> <<>>]

NoImages == [selected_image |-> NoImage, open_cv_image |-> NoImage,
             white_balanc_image |-> NoImage, enhanced_image |-> NoImage,
             original_image |-> NoImage]

\* The script's variables when it is not under study.
FlowIdle ==
    /\ uploaded_file = ""
    /\ canvas_objects = <<>>
    /\ ui = NoImages
    /\ log = <<>>
    /\ flow_pc = "idle"

\* The fields of a detector that has not been constructed.
NoDetector == [constructed |-> FALSE, mean |-> 0, std |-> 1, label_list |-> <<>>,
               location |-> 0, category |-> 0, score |-> 0, number |-> 0]

\* The constructor's variables when it is not under study.
ConstructIdle ==
    /\ ctor_options = [enable_edgetpu |-> FALSE]
    /\ platform_system = "Linux"
    /\ process_units = <<>>
    /\ output_details = <<>>
    /\ detector = NoDetector
    /\ ctor_pc = "idle"

\* The buffers and the file when they are not under study.
TransformsIdle ==
    /\ heap = <<>>
    /\ tmp_image_png = NoFile
    /\ call = NoCall
    /\ ConstructIdle
    /\ FlowIdle

\* The variables of whitepatch_balancing when it is not under study.
BalanceIdle ==
    /\ image = <<>>
    /\ from_row = 0 /\ from_column = 0 /\ row_width = 0 /\ column_width = 0
    /\ patch_max = <<>>
    /\ image_max = <<>>
    /\ white_balanc_image = <<>>
    /\ wb_pc = "idle"

\* Inputs of the decode loop: no deny list, no allow list, default max_results.
InitDecode ==
    /\ options \in [score_threshold : Thresholds,
                    label_deny_list : {None},
                    label_allow_list : {None},
                    max_results : {-1}]
    /\ boxes \in Tensor(BoxValues)
    /\ classes \in Tensor({0, 1})
    /\ scores \in Tensor(ScoreValues)
    /\ count \in 0..MaxDetections
    /\ \E size \in ImageSizes : image_height = size[1] /\ image_width = size[2]
    /\ results = <<>>
    /\ detections = <<>>
    /\ pc = "ready"
    /\ BalanceIdle
    /\ TransformsIdle

\* Inputs of the filter stages: every combination of the three options.
InitFilter ==
    /\ options \in [score_threshold : {5, 9},
                    label_deny_list : DenyLists,
                    label_allow_list : AllowLists,
                    max_results : -1..MaxResultsBound]
    /\ boxes = [i \in 1..MaxDetections |-> <<1, 2, 5, 6>>]
    /\ classes \in Tensor({0, 1, 2})
    /\ scores \in Tensor({5, 9})
    /\ count = MaxDetections
    /\ image_height = 100
    /\ image_width = 200
    /\ results = <<>>
    /\ detections = <<>>
    /\ pc = "ready"
    /\ BalanceIdle
    /\ TransformsIdle

NextDetect == Postprocess

SpecDecode == InitDecode /\ [][NextDetect]_vars
SpecFilter == InitFilter /\ [][NextDetect]_vars

----------------------------------------------------------------------------
(* whitepatch_balancing *)

Rows == 0..(ImgHeight - 1)
Cols == 0..(ImgWidth - 1)
Channels == 1..3
Pixels == Rows \X Cols

\* RGB colours of the input images (8-bit channel values).
Palette == {<<255, 128, 0>>, <<3, 2, 0>>, <<2, 3, 255>>}

\* A float64 value: the exact fraction num/den, +inf, or NaN.
Frac(num, den) == [kind |-> "num", num |-> num, den |-> den]
Inf == [kind |-> "inf", num |-> 0, den |-> 1]
NaN == [kind |-> "nan", num |-> 0, den |-> 1]

\* What the conversion of a NaN to uint8 may give: the C conversion is
\* undefined, the build decides (0 on x86-64 and on ARM).
NanCastValues == {0, 128, 255}

\* image[from_row:from_row+row_width, from_column:from_column+column_width]:
\* the positions of the slice (a slice stops at the end of the array).
PatchPixels(r0, c0, rw, cw) ==
    {px \in Pixels : /\ r0 <= px[1] /\ px[1] < r0 + rw
                     /\ c0 <= px[2] /\ px[2] < c0 + cw}

SetMax(S) == CHOOSE m \in S : \A x \in S : x <= m

\* image_patch.max() without the axis argument: one maximum for all channels.
PatchMaxAllChannels(img, patch) ==
    [ch \in Channels |-> SetMax({img[px][c] : px \in patch, c \in Channels})]

\* image_patch.max(axis=(0, 1)): the maximum of each channel over the patch.
PatchMax(img, patch) ==
    [ch \in Channels |-> SetMax({img[px][ch] : px \in patch})]

\* image*1.0 / m, in float64: a division by zero gives inf, 0/0 gives NaN.
Divide(p, m) ==
    IF m = 0 THEN (IF p = 0 THEN NaN ELSE Inf) ELSE Frac(p, m)

\* No clipping at all.
ClipNone(x) == x

\* .clip(0, 1): NaN stays NaN.
Clip(x) ==
    CASE x.kind = "nan" -> NaN
      [] x.kind = "inf" -> Frac(1, 1)
      [] OTHER -> IF x.num > x.den THEN Frac(1, 1)
                  ELSE IF x.num < 0 THEN Frac(0, 1) ELSE x

\* image_max * 255
Times255(x) ==
    IF x.kind = "num" THEN Frac(x.num * 255, x.den) ELSE x

\* A conversion to uint8 that rounds to the nearest integer.
AsUint8Rounded(x, nan_cast) ==
    IF x.kind = "num" THEN ((2 * x.num + x.den) \div (2 * x.den)) % 256
    ELSE nan_cast

\* .astype(np.uint8): the fraction is cut off; NaN and inf are undefined.
AsUint8(x, nan_cast) ==
    IF x.kind = "num" THEN (x.num \div x.den) % 256 ELSE nan_cast

\* One call of whitepatch_balancing, up to white_balanc_image.
WhitepatchBalancing ==
    /\ wb_pc = "ready"
    /\ LET patch == PatchPixels(from_row, from_column, row_width, column_width)
       IN  IF patch = {}
           THEN \* max of an empty array: ValueError
                /\ wb_pc' = "error"
                /\ UNCHANGED <<patch_max, image_max, white_balanc_image>>
           ELSE /\ patch_max' = PatchMax(image, patch)
                /\ image_max' =
                       [px \in Pixels |->
                           [ch \in Channels |->
                               Clip(Divide(image[px][ch], patch_max'[ch]))]]
                /\ \E nan_cast \in NanCastValues :
                       white_balanc_image' =
                           [px \in Pixels |->
                               [ch \in Channels |->
                                   AsUint8(Times255(image_max'[px][ch]), nan_cast)]]
                /\ wb_pc' = "done"
    /\ UNCHANGED <<image, from_row, from_column, row_width, column_width>>
    /\ UNCHANGED <<detectVars, transformVars, ctorVars, flowVars>>

\* The variables of _postprocess when it is not under study.
DetectIdle ==
    /\ options = [score_threshold |-> 0, label_deny_list |-> None,
                  label_allow_list |-> None, max_results |-> -1]
    /\ boxes = <<>> /\ classes = <<>> /\ scores = <<>> /\ count = 0
    /\ image_width = 0 /\ image_height = 0
    /\ results = <<>> /\ detections = <<>>
    /\ pc = "idle"

InitBalance ==
    /\ image \in [Pixels -> Palette]
    /\ from_row \in Rows
    /\ from_column \in Cols
    /\ row_width \in 0..ImgHeight
    /\ column_width \in 0..ImgWidth
    /\ patch_max = <<>>
    /\ image_max = <<>>
    /\ white_balanc_image = <<>>
    /\ wb_pc = "ready"
    /\ DetectIdle
    /\ TransformsIdle

NextBalance == WhitepatchBalancing

SpecBalance == InitBalance /\ [][NextBalance]_vars

----------------------------------------------------------------------------
(* whitepatch_balancing, visualize and objectDetector as operations on      *)
(* image buffers.  Pixel data is kept as its derivation (<<"photo">>,        *)
(* <<"photo", "balanced">>, ...), a drawing as the label it was drawn for.   *)

\* image.thumbnail((512, 512), ...)
ThumbnailSize == 512

\* Sizes <<width, height>> of an uploaded photograph.
UploadSizes == {<<512, 512>>, <<1024, 768>>}

\* The detections a detector may report, by label.
DetectionLists == {<<>>, <<"fish">>}

Allocated == {b \in BufferIds : heap[b].kind # "free"}
FreeIds == BufferIds \ Allocated

\* The k lowest free buffer ids, in order (allocation takes the next ids).
RECURSIVE LowestFree(_, _)
LowestFree(free, k) ==
    IF k = 0 THEN <<>>
    ELSE LET b == CHOOSE x \in free : \A y \in free : x <= y
         IN  <<b>> \o LowestFree(free \ {b}, k - 1)

\* Image.thumbnail: the size is kept when it fits in 512 x 512, else the
\* image is shrunk in place to fit, keeping the aspect ratio.
Thumbnail(size) ==
    IF size[1] <= ThumbnailSize /\ size[2] <= ThumbnailSize THEN size
    ELSE IF size[1] >= size[2]
         THEN <<ThumbnailSize, (size[2] * ThumbnailSize) \div size[1]>>
         ELSE <<(size[1] * ThumbnailSize) \div size[2], ThumbnailSize>>

\* Drawing on a copy: the buffer passed in keeps its content.
DrawnOnCopy(img, dets) == img

\* cv2.rectangle(image, ...) and cv2.putText(image, ...) for each detection:
\* both draw into the array they are given.
Drawn(img, dets) == [img EXCEPT !.drawn = @ \o dets]

\* selected_image = Image.open(uploaded_file): a new PIL image of any size.
OpenImage ==
    /\ FreeIds # {}
    /\ \E size \in UploadSizes :
           LET b == LowestFree(FreeIds, 1)[1]
           IN  /\ heap' = [heap EXCEPT ![b] =
                              [kind |-> "pil", size |-> size,
                               pixels |-> <<"photo">>, drawn |-> <<>>]]
               /\ call' = [op |-> "open", raised |-> FALSE, arg |-> 0,
                           ret |-> <<b>>, drawn |-> <<>>,
                           heap_before |-> heap, file_before |-> tmp_image_png]
    /\ UNCHANGED tmp_image_png
    /\ UNCHANGED <<detectVars, balanceVars, ctorVars, flowVars>>

\* open_cv_image = np.array(selected_image): a new array with a copy of the
\* pixels.
ToArray ==
    /\ FreeIds # {}
    /\ \E src \in Allocated :
           /\ heap[src].kind = "pil"
           /\ LET b == LowestFree(FreeIds, 1)[1]
              IN  /\ heap' = [heap EXCEPT ![b] = [heap[src] EXCEPT !.kind = "ndarray"]]
                  /\ call' = [op |-> "array", raised |-> FALSE, arg |-> src,
                              ret |-> <<b>>, drawn |-> <<>>,
                              heap_before |-> heap, file_before |-> tmp_image_png]
    /\ UNCHANGED tmp_image_png
    /\ UNCHANGED <<detectVars, balanceVars, ctorVars, flowVars>>

\* whitepatch_balancing(image, ...): image*1.0 / ... builds new arrays;
\* the sharpened image is saved to ./tmp/image.png and opened again.
\* An empty patch raises ValueError before anything is built.
CallWhitepatchBalancing ==
    /\ \E arg \in Allocated : \E patch_empty \in BOOLEAN :
           /\ heap[arg].kind = "ndarray"
           /\ IF patch_empty
              THEN /\ call' = [op |-> "whitepatch_balancing", raised |-> TRUE,
                               arg |-> arg, ret |-> <<>>, drawn |-> <<>>,
                               heap_before |-> heap,
                               file_before |-> tmp_image_png]
                   /\ UNCHANGED <<heap, tmp_image_png>>
              ELSE /\ Cardinality(FreeIds) >= 2
                   /\ LET new      == LowestFree(FreeIds, 2)
                          balanced == [kind |-> "pil", size |-> heap[arg].size,
                                       pixels |-> heap[arg].pixels \o <<"balanced">>,
                                       drawn |-> heap[arg].drawn]
                          enhanced == [balanced EXCEPT
                                          !.pixels = @ \o <<"sharpen2">>]
                      IN  /\ tmp_image_png' = [exists |-> TRUE,
                                               size |-> enhanced.size,
                                               pixels |-> enhanced.pixels]
                          /\ heap' = [heap EXCEPT ![new[1]] = balanced,
                                                  ![new[2]] = enhanced]
                          /\ call' = [op |-> "whitepatch_balancing",
                                      raised |-> FALSE, arg |-> arg,
                                      ret |-> new, drawn |-> <<>>,
                                      heap_before |-> heap,
                                      file_before |-> tmp_image_png]
    /\ UNCHANGED <<detectVars, balanceVars, ctorVars, flowVars>>

\* visualize(image, detections, ...): draws into image and returns image.
CallVisualize ==
    /\ \E arg \in Allocated : \E dets \in DetectionLists :
           /\ heap[arg].kind = "ndarray"
           /\ Len(heap[arg].drawn) + Len(dets) <= MaxAnnotations
           /\ heap' = [heap EXCEPT ![arg] = Drawn(heap[arg], dets)]
           /\ call' = [op |-> "visualize", raised |-> FALSE, arg |-> arg,
                       ret |-> <<arg>>, drawn |-> dets,
                       heap_before |-> heap, file_before |-> tmp_image_png]
    /\ UNCHANGED tmp_image_png
    /\ UNCHANGED <<detectVars, balanceVars, ctorVars, flowVars>>

\* objectDetector(image, ...): image.thumbnail in place, image_np =
\* np.asarray(image) (a local array), detect, visualize(image_np, ...),
\* return Image.fromarray(image_np).
CallObjectDetector ==
    /\ FreeIds # {}
    /\ \E arg \in Allocated : \E dets \in DetectionLists :
           /\ heap[arg].kind = "pil"
           /\ Len(heap[arg].drawn) + Len(dets) <= MaxAnnotations
           /\ LET b         == LowestFree(FreeIds, 1)[1]
                  thumb     == [heap[arg] EXCEPT !.size = Thumbnail(@)]
                  image_np  == [thumb EXCEPT !.kind = "ndarray"]
                  annotated == Drawn(image_np, dets)
              IN  /\ heap' = [heap EXCEPT ![arg] = thumb,
                                          ![b] = [annotated EXCEPT !.kind = "pil"]]
                  /\ call' = [op |-> "objectDetector", raised |-> FALSE,
                              arg |-> arg, ret |-> <<b>>, drawn |-> dets,
                              heap_before |-> heap,
                              file_before |-> tmp_image_png]
    /\ UNCHANGED tmp_image_png
    /\ UNCHANGED <<detectVars, balanceVars, ctorVars, flowVars>>

\* The UI after the upload: selected_image (resized to 512 x 512) and
\* open_cv_image = np.array(selected_image).
InitTransforms ==
    /\ heap = [b \in BufferIds |->
                  IF b = 1 THEN [kind |-> "pil", size |-> <<512, 512>>,
                                 pixels |-> <<"photo">>, drawn |-> <<>>]
                  ELSE IF b = 2 THEN [kind |-> "ndarray", size |-> <<512, 512>>,
                                      pixels |-> <<"photo">>, drawn |-> <<>>]
                  ELSE Free]
    /\ tmp_image_png = NoFile
    /\ call = NoCall
    /\ DetectIdle
    /\ BalanceIdle
    /\ ConstructIdle
    /\ FlowIdle

NextTransforms ==
    \/ OpenImage
    \/ ToArray
    \/ CallWhitepatchBalancing
    \/ CallVisualize
    \/ CallObjectDetector

SpecTransforms == InitTransforms /\ [][NextTransforms]_vars

----------------------------------------------------------------------------
(* ObjectDetector.__init__ *)

\* The label file packed with the model, line by line.
label_map_file == <<"fish", "shark", "", "starfish">>

\* process_units of the input tensor: none, or one NormalizationOptions unit.
ProcessUnitLists ==
    {<<>>,
     <<[options_type |-> "NormalizationOptions", mean |-> 127, std |-> 128]>>}

\* Values of platform.system(): one EdgeTPU supports, one it does not.
PlatformSystems == {"Linux", "Java"}

\* edgetpu_lib_name(): None (here "") on a platform that is not in the table.
edgetpu_lib_name(system) ==
    CASE system = "Darwin"  -> "libedgetpu.1.dylib"
      [] system = "Linux"   -> "libedgetpu.so.1"
      [] system = "Windows" -> "edgetpu.dll"
      [] OTHER -> ""

\* mean = 0.0; std = 1.0; for option in process_units: if options_type ==
\* 'NormalizationOptions': mean, std = ...   (the last such unit wins)
RECURSIVE Normalization(_, _, _)
Normalization(units, mean, std) ==
    IF units = <<>> THEN [mean |-> mean, std |-> std]
    ELSE IF units[1].options_type = "NormalizationOptions"
         THEN Normalization(SubSeq(units, 2, Len(units)), units[1].mean, units[1].std)
         ELSE Normalization(SubSeq(units, 2, Len(units)), mean, std)

\* list(filter(lambda x: len(x) > 0, label_map_file.splitlines()))
LabelList(lines) == SelectSeq(lines, LAMBDA x : x # "")

\* Number of leading elements of s that are at most x.
LeadingIndicesAtMost(s, x) ==
    CHOOSE k \in 0..Len(s) :
        /\ \A j \in 1..k : s[j] <= x
        /\ k = Len(s) \/ ~(s[k + 1] <= x)

\* sorted([output['index'] for output in interpreter.get_output_details()])
RECURSIVE sorted_output_indices(_)
sorted_output_indices(details) ==
    IF details = <<>> THEN <<>>
    ELSE LET front == sorted_output_indices(SubSeq(details, 1, Len(details) - 1))
             x     == details[Len(details)]
         IN  InsertAt(front, LeadingIndicesAtMost(front, x), x)

\* One call of ObjectDetector.__init__.  An exception leaves no detector.
Construct ==
    /\ ctor_pc = "ready"
    /\ IF ctor_options.enable_edgetpu /\ edgetpu_lib_name(platform_system) = ""
       THEN \* raise OSError("The current OS isn't supported by Coral EdgeTPU.")
            /\ ctor_pc' = "OSError"
            /\ UNCHANGED detector
       ELSE LET indices == sorted_output_indices(output_details)
                norm    == Normalization(process_units, 0, 1)
            IN  IF Len(indices) < 4
                THEN \* sorted_output_indices[k] with k >= len: IndexError
                     /\ ctor_pc' = "IndexError"
                     /\ UNCHANGED detector
                ELSE /\ detector' =
                            [constructed |-> TRUE,
                             mean        |-> norm.mean,
                             std         |-> norm.std,
                             label_list  |-> LabelList(label_map_file),
                             location    |-> indices[1],
                             category    |-> indices[2],
                             score       |-> indices[3],
                             number      |-> indices[4]]
                     /\ ctor_pc' = "constructed"
    /\ UNCHANGED <<ctor_options, platform_system, process_units, output_details>>
    /\ UNCHANGED <<detectVars, balanceVars, transformVars, flowVars>>

\* The sequences of pairwise different raw indices of at most MaxOutputs
\* output tensors, in any order.
OutputDetailLists ==
    UNION {{d \in [1..n -> 1..MaxOutputs] :
               \A i, j \in 1..n : i # j => d[i] # d[j]} : n \in 0..MaxOutputs}

InitConstruct ==
    /\ ctor_options \in [enable_edgetpu : BOOLEAN]
    /\ platform_system \in PlatformSystems
    /\ process_units \in ProcessUnitLists
    /\ output_details \in OutputDetailLists
    /\ detector = NoDetector
    /\ ctor_pc = "ready"
    /\ DetectIdle
    /\ BalanceIdle
    /\ heap = <<>>
    /\ tmp_image_png = NoFile
    /\ call = NoCall
    /\ FlowIdle

NextConstruct == Construct

SpecConstruct == InitConstruct /\ [][NextConstruct]_vars

----------------------------------------------------------------------------
(* The script of the page, lines 350-437: upload, canvas, colour correction *)
(* (balance, sharpen, smooth), detection on the enhanced image, detection   *)
(* on the original image.  Every interaction runs the script again from the *)
(* top; ./tmp/image.png stays from one run to the next.                     *)

\* The photographs a user may upload.
Photographs == {"photoA", "photoB"}

\* (image*1.0 / image_patch.max(axis=(0, 1))).clip(0, 1), as an 8-bit image.
Balance(img) == [img EXCEPT !.kind = "pil", !.pixels = @ \o <<"balanced">>]

\* ImageEnhance.Sharpness(image1).enhance(2)
Sharpen(img) == [img EXCEPT !.pixels = @ \o <<"sharpen2">>]

\* enhanced_image.filter(ImageFilter.SMOOTH)
Smooth(img) == [img EXCEPT !.pixels = @ \o <<"smooth">>]

\* The enhancement applied to the image as passed in, balanced afterwards.
SharpenedBeforeBalance(img) == Balance(Sharpen(img))

\* image1 = Image.fromarray((image_max * 255)...); Sharpness(image1).enhance(2)
SharpenedImage(img) == Sharpen(Balance(img))

\* The rectangles the canvas may report: none, or one drawn on the 512 x 512
\* canvas (a click without a drag has width and height 0).
CanvasObjectLists ==
    {<<>>} \cup
    {<<[left |-> l, top |-> t, width |-> w, height |-> h]>> :
        l \in {0, 256}, t \in {0, 256}, w \in {0, 128}, h \in {0, 128}}

\* image[from_row:from_row+row_width, from_column:from_column+column_width]
\* has no pixel.
PatchEmpty(img, r, c, rw, cw) ==
    \/ rw <= 0 \/ cw <= 0
    \/ r >= img.size[2] \/ c >= img.size[1]

Step(name, input, output) ==
    [step |-> name, input |-> input.pixels, output |-> output.pixels]

FlowUnchanged == UNCHANGED <<detectVars, balanceVars, ctorVars, heap, call>>

\* uploaded_file = st.file_uploader(...); if uploaded_file: selected_image =
\* Image.open(uploaded_file).resize([512, 512]); else "please select ...".
Upload ==
    /\ flow_pc = "upload"
    /\ \E file \in Photographs \cup {""} :
           /\ uploaded_file' = file
           /\ IF file = ""
              THEN /\ flow_pc' = "stopped"
                   /\ UNCHANGED ui
              ELSE /\ ui' = [ui EXCEPT !.selected_image =
                                [kind |-> "pil", size |-> <<512, 512>>,
                                 pixels |-> <<file>>, drawn |-> <<>>]]
                   /\ flow_pc' = "canvas"
    /\ UNCHANGED <<canvas_objects, log, tmp_image_png>>
    /\ FlowUnchanged

\* canvas = st_canvas(...); open_cv_image = np.array(selected_image);
\* if canvas.json_data['objects']: ...
Canvas ==
    /\ flow_pc = "canvas"
    /\ ui' = [ui EXCEPT !.open_cv_image =
                 [ui.selected_image EXCEPT !.kind = "ndarray"]]
    /\ \E objects \in CanvasObjectLists :
           /\ canvas_objects' = objects
           /\ flow_pc' = IF objects # <<>> THEN "balance" ELSE "stopped"
    /\ UNCHANGED <<uploaded_file, log, tmp_image_png>>
    /\ FlowUnchanged

\* white_balanc_image, enhanced_image = whitepatch_balancing(open_cv_image,
\* ...): the balanced image, and the sharpened image saved to
\* ./tmp/image.png and opened from it.  An empty patch raises ValueError.
BalanceAndSharpen ==
    /\ flow_pc = "balance"
    /\ LET rect == canvas_objects[1]
       IN  IF PatchEmpty(ui.open_cv_image, rect.left, rect.top,
                         rect.width, rect.height)
           THEN /\ flow_pc' = "ValueError"
                /\ UNCHANGED <<ui, log, tmp_image_png>>
           ELSE LET balanced  == Balance(ui.open_cv_image)
                    sharpened == SharpenedImage(ui.open_cv_image)
                IN  /\ tmp_image_png' = [exists |-> TRUE,
                                         size |-> sharpened.size,
                                         pixels |-> sharpened.pixels]
                    /\ ui' = [ui EXCEPT !.white_balanc_image = balanced,
                                        !.enhanced_image = sharpened]
                    /\ log' = Append(log, Step("whitepatch_balancing",
                                                ui.open_cv_image, sharpened))
                    /\ flow_pc' = "smooth"
    /\ UNCHANGED <<uploaded_file, canvas_objects>>
    /\ FlowUnchanged

\* st.image(white_balanc_image, ...);
\* enhanced_image = enhanced_image.filter(ImageFilter.SMOOTH)
SmoothEnhanced ==
    /\ flow_pc = "smooth"
    /\ ui' = [ui EXCEPT !.enhanced_image = Smooth(@)]
    /\ log' = Append(log, Step("smooth", ui.enhanced_image, ui'.enhanced_image))
    /\ flow_pc' = "detect_enhanced"
    /\ UNCHANGED <<uploaded_file, canvas_objects, tmp_image_png>>
    /\ FlowUnchanged

\* enhanced_image, ... = objectDetector(enhanced_image, values, ...)
DetectEnhanced ==
    /\ flow_pc = "detect_enhanced"
    /\ \E dets \in DetectionLists :
           LET annotated == Drawn(ui.enhanced_image, dets)
           IN  /\ ui' = [ui EXCEPT !.enhanced_image = annotated]
               /\ log' = Append(log, Step("detect_enhanced", ui.enhanced_image,
                                          annotated))
    /\ flow_pc' = "detect_original"
    /\ UNCHANGED <<uploaded_file, canvas_objects, tmp_image_png>>
    /\ FlowUnchanged

\* original_image, ... = objectDetector(selected_image, values, ...), and the
\* display of the two results.
DetectOriginal ==
    /\ flow_pc = "detect_original"
    /\ \E dets \in DetectionLists :
           LET annotated == Drawn(ui.selected_image, dets)
           IN  /\ ui' = [ui EXCEPT !.original_image = annotated]
               /\ log' = Append(log, Step("detect_original", ui.selected_image,
                                          annotated))
    /\ flow_pc' = "done"
    /\ UNCHANGED <<uploaded_file, canvas_objects, tmp_image_png>>
    /\ FlowUnchanged

\* An interaction: the script runs again from the top.
Rerun ==
    /\ flow_pc \in {"done", "stopped", "ValueError"}
    /\ flow_pc' = "upload"
    /\ uploaded_file' = ""
    /\ canvas_objects' = <<>>
    /\ ui' = NoImages
    /\ log' = <<>>
    /\ UNCHANGED tmp_image_png
    /\ FlowUnchanged

InitFlow ==
    /\ uploaded_file = ""
    /\ canvas_objects = <<>>
    /\ ui = NoImages
    /\ log = <<>>
    /\ flow_pc = "upload"
    /\ DetectIdle
    /\ BalanceIdle
    /\ ConstructIdle
    /\ heap = <<>>
    /\ tmp_image_png = NoFile
    /\ call = NoCall

NextFlow ==
    \/ Upload
    \/ Canvas
    \/ BalanceAndSharpen
    \/ SmoothEnhanced
    \/ DetectEnhanced
    \/ DetectOriginal
    \/ Rerun

SpecFlow == InitFlow /\ [][NextFlow]_vars

----------------------------------------------------------------------------
(* Properties of ObjectDetector._postprocess.  They are stated from the     *)
(* inputs and the lists of the state, not through the operators above.      *)

Done == pc = "done"

NoFilters ==
    /\ ~options.label_deny_list.configured
    /\ ~options.label_allow_list.configured
    /\ options.max_results <= 0

\* The 0-based indices the decode loop has to emit, and the k-th of them.
EmittedIndices ==
    {i \in 0..(count - 1) : scores[i + 1] >= options.score_threshold}

KthEmitted(k) ==
    CHOOSE i \in EmittedIndices :
        Cardinality({j \in EmittedIndices : j <= i}) = k

\* The integer t with t <= num/10 < t+1, for num >= 0.
TruncTenths(num) ==
    CHOOSE t \in 0..num : 10 * t <= num /\ num < 10 * (t + 1)

ExpectedRect(box) ==
    [top    |-> TruncTenths(box[1] * image_height),
     left   |-> TruncTenths(box[2] * image_width),
     bottom |-> TruncTenths(box[3] * image_height),
     right  |-> TruncTenths(box[4] * image_width)]

ExpectedCategories(i) ==
    <<[score |-> scores[i + 1],
       label |-> label_list[classes[i + 1] + 1],
       index |-> classes[i + 1]]>>

Occurrences(s, d) == Cardinality({k \in 1..Len(s) : s[k] = d})

WithScore(s, x) == SelectSeq(s, LAMBDA d : d.categories[1].score = x)

AllThreeConfigured ==
    /\ options.label_deny_list.configured
    /\ options.label_allow_list.configured
    /\ options.max_results > 0

LabelPasses(d) ==
    /\ options.label_deny_list.configured
           => d.categories[1].label \notin options.label_deny_list.labels
    /\ options.label_allow_list.configured
           => d.categories[1].label \in options.label_allow_list.labels

\* The decoded detections that survive the deny and the allow list, in
\* decode order, and the place of the a-th of them in the score order.
Kept == SelectSeq(results, LabelPasses)

RankInKept(a) ==
    1 + Cardinality({b \in 1..Len(Kept) :
            \/ Kept[b].categories[1].score > Kept[a].categories[1].score
            \/ /\ Kept[b].categories[1].score = Kept[a].categories[1].score
               /\ b < a})

\* C2: with a deny list, an allow list and max_results = N > 0 configured,
\* the result is the first N entries of the score-sorted list of the
\* detections that survive deny and allow; when at least N survive, exactly
\* N are returned.
C2_FilterThenTruncate ==
    (Done /\ AllThreeConfigured) =>
        /\ Len(detections) =
               (IF Len(Kept) <= options.max_results
                THEN Len(Kept) ELSE options.max_results)
        /\ \A a \in 1..Len(Kept) :
               RankInKept(a) <= options.max_results
                   => detections[RankInKept(a)] = Kept[a]

\* All three options are set, exactly N detections are returned, and a
\* denied detection outscores the best returned one (it was in the top N of
\* the sorted list).
C2_Witness ==
    /\ Done /\ AllThreeConfigured
    /\ Len(detections) = options.max_results
    /\ Len(Kept) > options.max_results
    /\ \E k \in 1..Len(results) :
           /\ results[k].categories[1].label \in options.label_deny_list.labels
           /\ results[k].categories[1].score > detections[1].categories[1].score

\* C3: with both lists configured, no returned detection has a label absent
\* from the allow list, and none has a label of the deny list.
C3_AllowAndDeny ==
    (Done /\ options.label_deny_list.configured
          /\ options.label_allow_list.configured) =>
        \A k \in 1..Len(detections) :
            /\ detections[k].categories[1].label
                   \in options.label_allow_list.labels
            /\ detections[k].categories[1].label
                   \notin options.label_deny_list.labels

\* Both lists are set; a label in neither list and a label in both lists were
\* decoded, and something is returned.
C3_Witness ==
    /\ Done
    /\ options.label_deny_list.configured
    /\ options.label_allow_list.configured
    /\ \E k \in 1..Len(results) :
           /\ results[k].categories[1].label \notin options.label_allow_list.labels
           /\ results[k].categories[1].label \notin options.label_deny_list.labels
    /\ \E k \in 1..Len(results) :
           /\ results[k].categories[1].label \in options.label_allow_list.labels
           /\ results[k].categories[1].label \in options.label_deny_list.labels
    /\ detections # <<>>

\* C4: max_results = N > 0 bounds the length of the result by N; with
\* max_results <= 0 every detection that passed the threshold, the deny list
\* and the allow list is returned.
C4_MaxResults ==
    Done =>
        /\ options.max_results > 0 => Len(detections) <= options.max_results
        /\ options.max_results <= 0 =>
               /\ Len(detections) = Len(Kept)
               /\ \A a \in 1..Len(Kept) :
                      Occurrences(detections, Kept[a]) = Occurrences(Kept, Kept[a])

\* max_results = N > 0 cut the list: more than N detections survived.
C4_Witness ==
    /\ Done
    /\ options.max_results > 0
    /\ Len(Kept) > options.max_results
    /\ Len(detections) = options.max_results

\* C5: with no other filter, index i < count is emitted iff
\* scores[i] >= score_threshold, and no index >= count is emitted; count=3,
\* scores=[0.9,0.4,0.9], threshold=0.5 gives the two 0.9 detections in order.
C5_ThresholdInclusive ==
    (Done /\ NoFilters) =>
        /\ Len(results) = Cardinality(EmittedIndices)
        /\ \A k \in 1..Len(results) :
               results[k].categories = ExpectedCategories(KthEmitted(k))
        /\ \A k \in 1..Len(results) :
               Occurrences(detections, results[k]) = Occurrences(results, results[k])
        /\ Len(detections) = Len(results)
        /\ (count = 3 /\ SubSeq(scores, 1, 3) = <<9, 4, 9>>
                      /\ options.score_threshold = 5) =>
               /\ Len(detections) = 2
               /\ detections[1].categories = ExpectedCategories(0)
               /\ detections[2].categories = ExpectedCategories(2)
               /\ detections[1].bounding_box = ExpectedRect(boxes[1])
               /\ detections[2].bounding_box = ExpectedRect(boxes[3])

\* The example of the claim, with two different detections.
C5_ExampleReached ==
    /\ Done /\ NoFilters
    /\ count = 3 /\ SubSeq(scores, 1, 3) = <<9, 4, 9>>
    /\ options.score_threshold = 5
    /\ Len(detections) = 2
    /\ detections[1] # detections[2]

\* A state where a score equal to the threshold was emitted and a slot at
\* index >= count with a passing score was not.
C5_Witness ==
    /\ Done /\ NoFilters
    /\ count < MaxDetections
    /\ scores[count + 1] >= options.score_threshold
    /\ \E k \in 1..Len(detections) :
           detections[k].categories[1].score = options.score_threshold

\* C6: a box [yMin, xMin, yMax, xMax] becomes top = trunc(yMin*height),
\* left = trunc(xMin*width), bottom = trunc(yMax*height),
\* right = trunc(xMax*width); [0.1,0.2,0.5,0.6] on a 100-high, 200-wide
\* image gives top=10, left=40, bottom=50, right=120.
C6_BoxDenormalized ==
    Done =>
        /\ Len(results) = Cardinality(EmittedIndices)
        /\ \A k \in 1..Len(results) :
               /\ results[k].bounding_box = ExpectedRect(boxes[KthEmitted(k) + 1])
               /\ (boxes[KthEmitted(k) + 1] = <<1, 2, 5, 6>>
                     /\ image_height = 100 /\ image_width = 200) =>
                      results[k].bounding_box =
                          [top |-> 10, left |-> 40, bottom |-> 50, right |-> 120]
        /\ \A k \in 1..Len(detections) :
               \E j \in 1..Len(results) : detections[k] = results[j]

\* A box whose products are not whole pixels was decoded on the 25 x 33
\* image next to the box of the example.
C6_Witness ==
    /\ Done
    /\ image_height = 25 /\ image_width = 33
    /\ \E k \in 1..Len(detections) :
           detections[k].bounding_box =
               [top |-> 2, left |-> 6, bottom |-> 12, right |-> 19]
    /\ \E k \in 1..Len(detections) :
           detections[k].bounding_box =
               [top |-> 7, left |-> 0, bottom |-> 25, right |-> 23]

----------------------------------------------------------------------------
(* Properties of whitepatch_balancing, stated from the image, the patch     *)
(* rectangle and the arrays of the state.                                   *)

Balanced == wb_pc = "done"

InPatch(px) ==
    /\ from_row <= px[1] /\ px[1] < from_row + row_width
    /\ from_column <= px[2] /\ px[2] < from_column + column_width

\* The largest value of channel ch inside the patch, and in the whole image.
ChannelPatchMax(ch) ==
    CHOOSE m \in {image[px][ch] : px \in Pixels} :
        /\ \E px \in Pixels : InPatch(px) /\ image[px][ch] = m
        /\ \A px \in Pixels : InPatch(px) => image[px][ch] <= m

ChannelImageMax(ch) ==
    CHOOSE m \in {image[px][ch] : px \in Pixels} :
        \A px \in Pixels : image[px][ch] <= m

Smaller(a, b) == IF a <= b THEN a ELSE b

\* C7: when the patch maximum of a channel is 0 the divisor is taken to be
\* 1, so no division by zero occurs and every value of that channel is a
\* defined number: p / 1 clipped to [0, 1], neither NaN nor Inf.
C7_ZeroMaxTreatedAsOne ==
    Balanced =>
        \A ch \in Channels :
            ChannelPatchMax(ch) = 0 =>
                \A px \in Pixels :
                    /\ image_max[px][ch].kind = "num"
                    /\ image_max[px][ch].num
                           = image_max[px][ch].den * Smaller(1, image[px][ch])

\* A call returned for a patch with an all-zero channel.
C7_ZeroChannelReached ==
    /\ Balanced
    /\ \E ch \in Channels : ChannelPatchMax(ch) = 0

\* C8 as claimed: for a channel with patch maximum m > 0 the 8-bit value of
\* a pixel p is 255 * min(1, p/m) rounded to the nearest integer (at most
\* one half away from it).
C8_RoundedToNearest ==
    Balanced =>
        \A ch \in Channels : \A px \in Pixels :
            LET m == ChannelPatchMax(ch)
                q == 255 * Smaller(image[px][ch], m)
                v == white_balanc_image[px][ch]
            IN  m > 0 => /\ 2 * m * v - 2 * q <= m
                         /\ 2 * q - 2 * m * v <= m

\* C8 as amended: for a channel with patch maximum m > 0 the 8-bit value of
\* a pixel p is 255 * min(1, p/m) with its fraction cut off (the floor).
C8_Truncated ==
    Balanced =>
        \A ch \in Channels : \A px \in Pixels :
            LET m == ChannelPatchMax(ch)
                q == 255 * Smaller(image[px][ch], m)
                v == white_balanc_image[px][ch]
            IN  m > 0 => /\ m * v <= q
                         /\ q < m * (v + 1)

\* A balanced value whose exact quotient is more than one half above it:
\* 255 * 2 / 128 = 3.98 became 3.
C8_Witness ==
    /\ Balanced
    /\ \E ch \in Channels : \E px \in Pixels :
           /\ ChannelPatchMax(ch) = 128
           /\ image[px][ch] = 2
           /\ white_balanc_image[px][ch] = 3

IsOne(x) == x.kind = "num" /\ x.num = x.den
AtMostOne(x) == x.kind # "inf" /\ (x.kind = "num" => x.num <= x.den)

\* C9: if the patch maximum of a channel equals the image maximum of that
\* channel and is > 0, the balanced maximum of the channel is exactly full
\* scale (1.0, 255 in 8 bits); and for every patch no balanced value of any
\* channel exceeds full scale.
C9_FullScale ==
    Balanced =>
        /\ \A ch \in Channels :
               (ChannelPatchMax(ch) > 0 /\ ChannelPatchMax(ch) = ChannelImageMax(ch)) =>
                   /\ \E px \in Pixels : IsOne(image_max[px][ch])
                   /\ \E px \in Pixels : white_balanc_image[px][ch] = 255
        /\ \A ch \in Channels : \A px \in Pixels :
               /\ AtMostOne(image_max[px][ch])
               /\ white_balanc_image[px][ch] <= 255

\* One channel's patch maximum is the image maximum (> 0) while the patch is
\* not the whole image, and another channel has a pixel above its patch
\* maximum (> 0), which the clip brought down to full scale.
C9_Witness ==
    /\ Balanced
    /\ \E px \in Pixels : ~InPatch(px)
    /\ \E ch \in Channels :
           /\ ChannelPatchMax(ch) > 0
           /\ ChannelPatchMax(ch) = ChannelImageMax(ch)
           /\ \E px \in Pixels : white_balanc_image[px][ch] \notin {0, 255}
    /\ \E ch \in Channels : \E px \in Pixels :
           /\ ChannelPatchMax(ch) > 0
           /\ image[px][ch] > ChannelPatchMax(ch)
           /\ white_balanc_image[px][ch] = 255

----------------------------------------------------------------------------
(* Properties of the transforms as operations on buffers and files.         *)

Returned(op) == call.op = op /\ ~call.raised

IsNewBuffer(b) == b # call.arg /\ call.heap_before[b].kind = "free"

OthersUnchanged(changed) ==
    \A b \in BufferIds \ changed : heap[b] = call.heap_before[b]

RetSet == {call.ret[k] : k \in 1..Len(call.ret)}

C10_ShrunkReached ==
    /\ Returned("objectDetector")
    /\ heap[call.arg] # call.heap_before[call.arg]

----------------------------------------------------------------------------
(* Properties of ObjectDetector.__init__.                                   *)

\* The constructor got as far as the output tensors.
ReachedOutputs ==
    /\ ctor_pc \notin {"ready", "idle", "OSError"}

\* C11: construction fails, and produces no detector, whenever the model
\* exposes a number of output tensors other than four (fewer and more
\* alike); with exactly four, the raw indices in ascending order become
\* location boxes, class indices, scores, detection count.
C11_ExactlyFourOutputs ==
    ReachedOutputs =>
        /\ Len(output_details) # 4 =>
               /\ ctor_pc # "constructed"
               /\ detector = NoDetector
        /\ Len(output_details) = 4 =>
               /\ ctor_pc = "constructed"
               /\ detector.constructed
               /\ {detector.location, detector.category, detector.score,
                   detector.number} = {output_details[k] : k \in 1..4}
               /\ detector.location < detector.category
               /\ detector.category < detector.score
               /\ detector.score < detector.number

\* What the constructor does for a model with fewer than four outputs, and
\* for one with exactly four: the part of C11 that holds.
C11_AtMostFourOutputs ==
    (ReachedOutputs /\ Len(output_details) <= 4) =>
        /\ Len(output_details) < 4 =>
               /\ ctor_pc = "IndexError"
               /\ detector = NoDetector
        /\ Len(output_details) = 4 =>
               /\ ctor_pc = "constructed"
               /\ {detector.location, detector.category, detector.score,
                   detector.number} = {output_details[k] : k \in 1..4}
               /\ detector.location < detector.category
               /\ detector.category < detector.score
               /\ detector.score < detector.number

\* A detector was constructed from a model with more than four outputs.
C11_MoreThanFourConstructed ==
    /\ ctor_pc = "constructed"
    /\ Len(output_details) > 4
    /\ detector.constructed

----------------------------------------------------------------------------
(* Properties of the colour-correction flow of the page script.            *)

\* The operations of a complete run, in the order the script makes them.
ScriptOrder ==
    <<"whitepatch_balancing", "smooth", "detect_enhanced", "detect_original">>

StepNames == [i \in 1..Len(log) |-> log[i].step]

BalancedPixels == <<uploaded_file, "balanced">>

SharpenedPixels == <<uploaded_file, "balanced", "sharpen2">>

SmoothedPixels == <<uploaded_file, "balanced", "sharpen2", "smooth">>

C12_EnhancedDetectedFirst ==
    \A i, j \in 1..Len(log) :
        (log[i].step = "detect_enhanced" /\ log[j].step = "detect_original")
            => i < j

\* A run that stops at the ValueError of an empty patch makes no later step.
C12_EmptyPatchStops ==
    flow_pc = "ValueError" => log = <<>>

C12_EmptyPatchReached == flow_pc = "ValueError"

====
